---------------------------- MODULE Spec2Model ----------------------------
(***************************************************************************)
(* konrad: convective adjustment (konrad/convection.py) and humidity       *)
(* policies (konrad/humidity/__init__.py).                                 *)
(*                                                                         *)
(* Numbers.  The code works in floating point; the model works in whole    *)
(* numbers of fixed units:                                                 *)
(*   - temperatures are counted in units of 1e-14 K;                       *)
(*   - pressures are counted in units for which Cp/g = 1, so that the      *)
(*     factor Cp/g of energy_difference is 1;                              *)
(*   - a heat capacity is an energy per temperature unit, so the threshold *)
(*     heat_capacity / 1e13 (per kelvin) is heat_capacity * 10 per unit;   *)
(*   - a division rounds to the whole number below (Quot).                 *)
(***************************************************************************)
EXTENDS Integers, Sequences, FiniteSets, TLC

VARIABLES
    \* ---- convection: the objects stabilize works on
    strategy,       \* "Hard" (HardAdjustment) or "Relaxed" (RelaxedAdjustment)
    tf,             \* Relaxed: 1 - exp(-timestep/tau) per level, in TfDen-ths
    surface_kind,   \* "fixed" (SurfaceFixedTemperature) or "variable"
    heat_capacity,  \* surface.heat_capacity (variable surface only)
    atmT,           \* atmosphere['T'][0, :]
    surfT,          \* surface['temperature']
    diag,           \* the component's diagnostic variables (create_variable)
    \* ---- convection: the locals of one stabilize / convective_adjustment call
    pc, lp, T_rad, near_zero, T_con, diff, diffpos, diffneg,
    surfaceTpos, surfaceTneg, surfaceT, counter,
    surfT_in,       \* surface['temperature'] when stabilize was called
    ncalls,         \* number of test_profile calls made by this call
    path,           \* which return statement of convective_adjustment was taken
    \* ---- interp_variable called on its own
    iv_pc, iv_variable, iv_heating, iv_lim, iv_result,
    \* ---- humidity policies
    hum_class,      \* the class of the humidity policy object
    hum_args,       \* the constructor parameters that were given
    hum_pc,         \* "new", "ready", or "error" after an exception
    hum_IWV,        \* self.IWV
    hum_IWV0,       \* the first target self.IWV held
    H2O,            \* atmosphere["H2O"][-1, :], a profile of fractions num[i]/den
    hum_uncoupled,  \* H2O was written after the last adjust_stratospheric_vmr
    hum_last        \* the last operation on the vapor field

conv_vars == <<strategy, tf, surface_kind, heat_capacity, atmT, surfT, diag,
               pc, lp, T_rad, near_zero, T_con, diff, diffpos, diffneg,
               surfaceTpos, surfaceTneg, surfaceT, counter, surfT_in, ncalls,
               path>>
iv_vars == <<iv_pc, iv_variable, iv_heating, iv_lim, iv_result>>
hum_vars == <<hum_class, hum_args, hum_pc, hum_IWV, hum_IWV0, H2O,
              hum_uncoupled, hum_last>>
vars == <<conv_vars, iv_vars, hum_vars>>

-----------------------------------------------------------------------------
(* Bounds of the model *)

\* temperatures of the small columns are 0, TempStep, ..., MaxTemp * TempStep
MaxTemp == 2
\* lapse values lp (K/Pa) of the small lapse fields are -MaxLapse..1
MaxLapse == 1
\* the relaxation fraction tf is a multiple of 1/TfDen
TfDen == 2

-----------------------------------------------------------------------------
(* Arithmetic helpers *)

\* a / b rounded down, for either sign of b (b # 0)
Quot(a, b) == IF b > 0 THEN a \div b ELSE (0 - a) \div (0 - b)

Abs(x) == IF x < 0 THEN 0 - x ELSE x

\* the value numpy gives a positive number divided by zero
Inf == 10 ^ 8

RECURSIVE SumTo(_, _)
\* f[1] + ... + f[n]
SumTo(f, n) == IF n = 0 THEN 0 ELSE SumTo(f, n - 1) + f[n]

\* np.min of a profile
Min(f) == CHOOSE x \in {f[i] : i \in DOMAIN f} : \A i \in DOMAIN f : x <= f[i]

-----------------------------------------------------------------------------
(* The pressure grid: full levels plev and half levels phlev, decreasing.   *)

phlev == <<62, 60, 10>>
plev == <<61, 35>>
NLev == Len(plev)
Levels == 1..NLev

\* dp = np.diff(phlev)
dp == [i \in Levels |-> phlev[i + 1] - phlev[i]]
\* dp_lapse = np.hstack((np.array([p[0] - phlev[0]]), np.diff(p)))
dp_lapse == [i \in Levels |-> IF i = 1 THEN plev[1] - phlev[1]
                                       ELSE plev[i] - plev[i - 1]]

-----------------------------------------------------------------------------
(* energy_difference, energy_threshold *)

\* termdiff = - np.sum(Cp/g * dT * dp) + eff_Cp_s * dT_s
energy_difference(T_2, T_1, sst_2, sst_1, eff_Cp_s) ==
    (0 - SumTo([i \in Levels |-> (T_2[i] - T_1[i]) * dp[i]], NLev))
        + eff_Cp_s * (sst_2 - sst_1)

\* the except-branch value 10**-8 lies below one energy unit: for the whole
\* energies of the model x < 10**-8 exactly when x < FixedThreshold
FixedThreshold == 1
\* heat_capacity / 1e13 per kelvin, with temperatures in units of 1e-14 K
ThresholdPerUnit == 10

energy_threshold(kind, hc) ==
    IF kind = "fixed" THEN FixedThreshold ELSE hc * ThresholdPerUnit

-----------------------------------------------------------------------------
(* test_profile of both strategies *)

\* surfaceT - np.cumsum(dp_lapse * lp)
Adiabat(sT, l) ==
    [i \in Levels |-> sT - SumTo([j \in Levels |-> dp_lapse[j] * l[j]], i)]

\* np.where(T_con > T_rad)
Unstable(ad, Tr) == {i \in Levels : ad[i] > Tr[i]}

SetMax(S) == CHOOSE x \in S : \A y \in S : y <= x

\* the profile with the slice one level too low (T_con[contop:] = T_rad[contop:])
HardProfile_TopRadiative(Tr, sT, l) ==
    LET ad == Adiabat(sT, l)
    IN  IF Unstable(ad, Tr) # {}
        THEN LET contop == SetMax(Unstable(ad, Tr))
             IN  [i \in Levels |-> IF i < contop THEN ad[i] ELSE Tr[i]]
        ELSE Tr

\* HardAdjustment.test_profile, the profile
HardProfile(Tr, sT, l) ==
    LET ad == Adiabat(sT, l)
    IN  IF Unstable(ad, Tr) # {}
        THEN LET contop == SetMax(Unstable(ad, Tr))
             IN  [i \in Levels |-> IF i <= contop THEN ad[i] ELSE Tr[i]]
        ELSE Tr

\* RelaxedAdjustment.test_profile, the profile:
\* T_con = T_rad * (1 - tf) + tf * (surfaceT - np.cumsum(dp_lapse * lp))
RelaxedProfile(Tr, sT, l, f) ==
    LET ad == Adiabat(sT, l)
    IN  [i \in Levels |-> Quot(Tr[i] * (TfDen - f[i]) + f[i] * ad[i], TfDen)]

BuildProfile(strat, f, Tr, sT, l) ==
    IF strat = "Hard" THEN HardProfile(Tr, sT, l)
                      ELSE RelaxedProfile(Tr, sT, l, f)

\* test_profile without its fixed-surface return: the energy difference is
\* computed for every surface
ProfileDiff_NoFixedReturn(kind, hc, Tc, Tr, sT, sst) ==
    energy_difference(Tc, Tr, sT, sst, hc)

\* the float returned beside the profile
ProfileDiff(kind, hc, Tc, Tr, sT, sst) ==
    IF kind = "fixed" THEN 0
    ELSE energy_difference(Tc, Tr, sT, sst, hc)

\* test_profile: the candidate profile and the energy difference
test_profile(strat, f, kind, hc, Tr, sst, sT, l) ==
    LET Tc == BuildProfile(strat, f, Tr, sT, l)
    IN  [T |-> Tc, diff |-> ProfileDiff(kind, hc, Tc, Tr, sT, sst)]

-----------------------------------------------------------------------------
(* interp_variable and calculate_convective_top.  A limit lim is a fraction *)
(* [num, den]; an interpolated value is a fraction [num, den] too, so the   *)
(* interpolation is exact.                                                  *)

Frac(n, d) == [kind |-> "value", num |-> n, den |-> d]
ValueError == [kind |-> "ValueError"]
NaN == [kind |-> "nan"]

\* convective_heating > lim, convective_heating < lim
Above(h, lim) == h * lim.den > lim.num
Below(h, lim) == h * lim.den < lim.num

SetMin(S) == CHOOSE x \in S : \A y \in S : x <= y

\* int(np.argmax(convective_heating > lim)): the first level above lim, the
\* lowest level when there is none
positive_i(heating, lim) ==
    LET S == {i \in DOMAIN heating : Above(heating[i], lim)}
    IN  IF S = {} THEN 1 ELSE SetMin(S)

\* int(np.argmax(convective_heating[positive_i:] < lim)) + positive_i
contop_index(heating, lim) ==
    LET pi == positive_i(heating, lim)
        S == {i \in DOMAIN heating : i >= pi /\ Below(heating[i], lim)}
    IN  IF S = {} THEN pi ELSE SetMin(S)

\* the level read by the index contop_index - 1: Python reads index -1 as the
\* last element of the array
below_index(heating, lim) ==
    LET c == contop_index(heating, lim)
    IN  IF c = 1 THEN Len(heating) ELSE c - 1

\* interp1d(heat_array, var_array)(lim): the two points are sorted by heating;
\* lim outside them raises ValueError (bounds_error); two equal abscissae that
\* equal lim give 0/0
interp1d(x0, y0, x1, y1, lim) ==
    LET xlo == IF x0 <= x1 THEN x0 ELSE x1
        ylo == IF x0 <= x1 THEN y0 ELSE y1
        xhi == IF x0 <= x1 THEN x1 ELSE x0
        yhi == IF x0 <= x1 THEN y1 ELSE y0
    IN  IF Below(xhi, lim) \/ Above(xlo, lim) THEN ValueError
        ELSE IF xlo = xhi THEN NaN
        ELSE Frac(ylo * (xhi - xlo) * lim.den
                      + (yhi - ylo) * (lim.num - xlo * lim.den),
                  (xhi - xlo) * lim.den)

interp_variable(variable, heating, lim) ==
    LET c == contop_index(heating, lim)
        b == below_index(heating, lim)
    IN  interp1d(heating[b], variable[b], heating[c], variable[c], lim)

\* np.arange(0, p.shape[0])
arange(n) == [i \in 1..n |-> i - 1]

\* the default lim=0.2 of calculate_convective_top
DefaultLim == [num |-> 1, den |-> 5]

\* calculate_convective_top: the diagnostic variables it creates, or
\* ValueError when an interpolation raises.  The timestep is one time unit,
\* so convective_heating = (T_con - T_rad) / timestep = T_con - T_rad.
calculate_convective_top(Tr, Tc, lim) ==
    LET heating == [i \in Levels |-> Tc[i] - Tr[i]]
    IN  IF \E i \in Levels : Above(heating[i], lim)
        THEN LET cp == interp_variable(plev, heating, lim)
                 cT == interp_variable(Tc, heating, lim)
                 ci == interp_variable(arange(NLev), heating, lim)
             IN  IF ValueError \in {cp, cT, ci} THEN ValueError
                 ELSE [kind |-> "written",
                       convective_heating_rate |-> heating,
                       convective_top_plev |-> cp,
                       convective_top_temperature |-> cT,
                       convective_top_index |-> ci]
        ELSE [kind |-> "written",
              convective_heating_rate |-> heating,
              convective_top_plev |-> NaN,
              convective_top_temperature |-> NaN,
              convective_top_index |-> NaN]

NoDiag == [kind |-> "none"]

-----------------------------------------------------------------------------
(* stabilize and convective_adjustment, one action per step of the call     *)

\* the cap on the number of trial profiles of the loop
MaxIter == 100

\* surfaceTneg + (surfaceTpos - surfaceTneg) * (-diffneg) / (-diffneg + diffpos)
Secant(Tneg, Tpos, dneg, dpos) ==
    IF dpos - dneg = 0 THEN Inf
    ELSE Tneg + Quot((Tpos - Tneg) * (0 - dneg), dpos - dneg)

\* while diffpos >= near_zero and -diffneg >= near_zero
LoopGuard(dpos, dneg, nz) == dpos >= nz /\ (0 - dneg) >= nz

\* if diffpos < near_zero: return T_con, surface['temperature']
IsStable(dpos, nz) == dpos < nz

\* if np.abs(diffneg) < near_zero: return T_con, surfaceTneg
LowerBoundGood(dneg, nz) == Abs(dneg) < nz

\* the bound update with its test reversed (if diff < 0)
UpdateBounds_Reversed(d, sT, dpos, Tpos, dneg, Tneg) ==
    IF d < 0 THEN [diffpos |-> d, surfaceTpos |-> sT,
                   diffneg |-> dneg, surfaceTneg |-> Tneg]
             ELSE [diffpos |-> dpos, surfaceTpos |-> Tpos,
                   diffneg |-> d, surfaceTneg |-> sT]

\* the bound update of one iteration: [diffpos, surfaceTpos, diffneg, surfaceTneg]
UpdateBounds(d, sT, dpos, Tpos, dneg, Tneg) ==
    IF d > 0 THEN [diffpos |-> d, surfaceTpos |-> sT,
                   diffneg |-> dneg, surfaceTneg |-> Tneg]
             ELSE [diffpos |-> dpos, surfaceTpos |-> Tpos,
                   diffneg |-> d, surfaceTneg |-> sT]

\* if counter == 100: raise ValueError(...)
CapReached(c) == c = MaxIter

frame_objects == <<strategy, tf, surface_kind, heat_capacity>>

\* stabilize is called with a lapse field: convective_adjustment runs from its
\* first line to the first return or to the head of the loop
Stabilize_Call(l) ==
    /\ pc = "idle"
    /\ LET nz == energy_threshold(surface_kind, heat_capacity)
           first == test_profile(strategy, tf, surface_kind, heat_capacity,
                                 atmT, surfT, surfT, l)
           Tneg == Min(atmT)
           dneg == heat_capacity * (Tneg - surfT)
       IN  /\ lp' = l
           /\ T_rad' = atmT
           /\ near_zero' = nz
           /\ T_con' = first.T
           /\ diff' = first.diff
           /\ diffpos' = first.diff
           /\ surfaceTpos' = surfT
           /\ surfT_in' = surfT
           /\ ncalls' = 1
           /\ counter' = 0
           /\ IF surface_kind = "fixed"
              THEN /\ pc' = "returned" /\ path' = "fixed"
                   /\ surfaceT' = surfT
                   /\ UNCHANGED <<diffneg, surfaceTneg>>
              ELSE IF IsStable(first.diff, nz)
              THEN /\ pc' = "returned" /\ path' = "stable"
                   /\ surfaceT' = surfT
                   /\ UNCHANGED <<diffneg, surfaceTneg>>
              ELSE IF LowerBoundGood(dneg, nz)
              THEN /\ pc' = "returned" /\ path' = "lower"
                   /\ surfaceT' = Tneg
                   /\ diffneg' = dneg /\ surfaceTneg' = Tneg
              ELSE /\ pc' = "loop" /\ path' = "loop"
                   /\ surfaceT' = Secant(Tneg, surfT, dneg, first.diff)
                   /\ diffneg' = dneg /\ surfaceTneg' = Tneg
    /\ UNCHANGED <<frame_objects, atmT, surfT, diag, iv_vars, hum_vars>>

\* one iteration of the while loop
Loop_Iterate ==
    /\ pc = "loop"
    /\ LoopGuard(diffpos, diffneg, near_zero)
    /\ LET sT == Secant(surfaceTneg, surfaceTpos, diffneg, diffpos)
           trial == test_profile(strategy, tf, surface_kind, heat_capacity,
                                 T_rad, surfT, sT, lp)
           b == UpdateBounds(trial.diff, sT, diffpos, surfaceTpos,
                             diffneg, surfaceTneg)
       IN  /\ surfaceT' = sT
           /\ T_con' = trial.T
           /\ diff' = trial.diff
           /\ diffpos' = b.diffpos
           /\ surfaceTpos' = b.surfaceTpos
           /\ diffneg' = b.diffneg
           /\ surfaceTneg' = b.surfaceTneg
           /\ ncalls' = ncalls + 1
           /\ counter' = counter + 1
           /\ pc' = IF CapReached(counter + 1) THEN "failed" ELSE "loop"
    /\ UNCHANGED <<frame_objects, atmT, surfT, diag, lp, T_rad, near_zero,
                   surfT_in, path, iv_vars, hum_vars>>

\* the loop condition is false: return T_con, surfaceT
Loop_Exit ==
    /\ pc = "loop"
    /\ ~LoopGuard(diffpos, diffneg, near_zero)
    /\ pc' = "returned"
    /\ UNCHANGED <<frame_objects, atmT, surfT, diag, lp, T_rad, near_zero,
                   T_con, diff, diffpos, diffneg, surfaceTpos, surfaceTneg,
                   surfaceT, counter, surfT_in, ncalls, path, iv_vars,
                   hum_vars>>

\* the rest of stabilize: calculate_convective_top, then the two writes
Stabilize_Finish ==
    /\ pc = "returned"
    /\ LET d == calculate_convective_top(T_rad, T_con, DefaultLim)
       IN  IF d = ValueError
           THEN /\ pc' = "raised"
                /\ UNCHANGED <<atmT, surfT, diag>>
           ELSE /\ pc' = "done"
                /\ diag' = d
                /\ atmT' = T_con
                /\ surfT' = surfaceT
    /\ UNCHANGED <<frame_objects, lp, T_rad, near_zero, T_con, diff, diffpos,
                   diffneg, surfaceTpos, surfaceTneg, surfaceT, counter,
                   surfT_in, ncalls, path, iv_vars, hum_vars>>

-----------------------------------------------------------------------------
(* The columns stabilize is called on, and the lapse fields it is given     *)

HeatCapacities == {1, 10}

\* tau, hence tf, the same at every level: tf = k / TfDen
RelaxFractions == {[i \in Levels |-> k] : k \in 0..TfDen}

\* a surface that is TempStep colder holds near_zero less energy
TempStep == ThresholdPerUnit
Temperatures == {k * TempStep : k \in 0..MaxTemp}

Profiles == [Levels -> Temperatures]

SmallColumns ==
    {[strategy |-> s, tf |-> f, surface_kind |-> k, heat_capacity |-> hc,
      T |-> T, temperature |-> ts] :
        s \in {"Hard", "Relaxed"}, f \in RelaxFractions,
        k \in {"fixed", "variable"}, hc \in HeatCapacities \cup {0},
        T \in Profiles, ts \in Temperatures}

\* a Hard strategy holds no timescale; a fixed surface holds no heat capacity
WellFormed(c) ==
    /\ (c.strategy = "Hard" => \A i \in Levels : c.tf[i] = 0)
    /\ (c.surface_kind = "fixed" <=> c.heat_capacity = 0)

\* a column whose lowest layer is thin and cold under a thick warmer layer and
\* a much warmer surface: the root finder needs many trials on it
SlowColumn ==
    [strategy |-> "Hard", tf |-> [i \in Levels |-> 0],
     surface_kind |-> "variable", heat_capacity |-> 1,
     T |-> <<2820, 8500>>, temperature |-> 20000]

\* a column whose coldest level is within the threshold of the surface
\* temperature without being equal to it
NearColumn ==
    [strategy |-> "Hard", tf |-> [i \in Levels |-> 0],
     surface_kind |-> "variable", heat_capacity |-> 1,
     T |-> <<5, 20>>, temperature |-> 0]

Columns == {c \in SmallColumns : WellFormed(c)} \cup {SlowColumn, NearColumn}

\* lp = -lapse / (g * density): one value per level, of either sign
LapseFields == [Levels -> (0 - MaxLapse)..1]

Zeros == [i \in Levels |-> 0]

\* no call of stabilize is running
ConvIdle ==
    /\ pc = "idle" /\ path = "none" /\ diag = NoDiag
    /\ lp = Zeros /\ T_rad = Zeros /\ T_con = Zeros
    /\ near_zero = 0 /\ diff = 0 /\ diffpos = 0 /\ diffneg = 0
    /\ surfaceTpos = 0 /\ surfaceTneg = 0 /\ surfaceT = 0
    /\ counter = 0 /\ ncalls = 0 /\ surfT_in = 0

ConvSetup(c) ==
    /\ strategy = c.strategy /\ tf = c.tf
    /\ surface_kind = c.surface_kind /\ heat_capacity = c.heat_capacity
    /\ atmT = c.T /\ surfT = c.temperature
    /\ ConvIdle

\* the convection variables of a specification that makes no stabilize call
ConvUnused == ConvSetup(SlowColumn)

IvUnused ==
    /\ iv_pc = "unused" /\ iv_variable = <<>> /\ iv_heating = <<>>
    /\ iv_lim = DefaultLim /\ iv_result = NaN

None == [kind |-> "None"]

HumUnused ==
    /\ hum_class = "none" /\ hum_args = {} /\ hum_pc = "unused"
    /\ hum_IWV = None /\ hum_IWV0 = None /\ H2O = <<>>
    /\ hum_uncoupled = FALSE /\ hum_last = "none"

Init ==
    /\ \E c \in Columns : ConvSetup(c)
    /\ IvUnused
    /\ HumUnused

Next ==
    \/ \E l \in LapseFields : Stabilize_Call(l)
    \/ Loop_Iterate
    \/ Loop_Exit
    \/ Stabilize_Finish

Spec == Init /\ [][Next]_vars

-----------------------------------------------------------------------------
(* Claims about stabilize and convective_adjustment (specification Spec)    *)

\* convective_adjustment has returned the pair (T_con, surfaceT)
Returned == pc \in {"returned", "done", "raised"}

\* the energy imbalance of the returned pair against the radiative profile and
\* the surface temperature of the call
ReturnedImbalance ==
    energy_difference(T_con, T_rad, surfaceT, surfT_in, heat_capacity)

\* the adiabat from the surface temperature of the call exceeds the radiative
\* profile at no level
NowhereUnstable == Unstable(Adiabat(surfT_in, lp), T_rad) = {}

\* C1: with a surface that has a heat capacity, whenever convective_adjustment
\* returns, the imbalance of the returned profile at the returned surface
\* temperature is at most energy_threshold(surface) in magnitude.
C1_ReturnedWithinThreshold ==
    (surface_kind = "variable" /\ Returned)
        => Abs(ReturnedImbalance) <= near_zero

\* C2: for both strategies, when the adiabat exceeds the radiative profile at
\* no level, stabilize leaves atmosphere['T'] and surface['temperature'] as
\* they were.
C2_StableInputUnchanged ==
    (pc = "done" /\ NowhereUnstable) => (atmT = T_rad /\ surfT = surfT_in)

\* C3: with a fixed-temperature surface the call makes exactly one
\* test_profile call, which reports an imbalance of 0, never enters the loop,
\* and returns the surface temperature it was called with, which stabilize
\* then writes back.
C3_FixedSurface ==
    (surface_kind = "fixed" /\ pc # "idle")
        => /\ Returned
           /\ path = "fixed"
           /\ ncalls = 1
           /\ diff = 0
           /\ counter = 0
           /\ surfaceT = surfT_in
           /\ surfT = surfT_in

\* a fixed-surface call of the relaxed strategy has changed the profile
C3_Witness ==
    /\ surface_kind = "fixed" /\ strategy = "Relaxed" /\ pc = "done"
    /\ atmT # T_rad /\ surfT = surfT_in /\ ncalls = 1

\* C4: when diffpos is below the threshold the call applies no adjustment: it
\* returns the radiative profile and the unchanged surface temperature, and
\* stabilize leaves both as they were.
C4_StableReturnsRadiative ==
    (path = "stable" /\ Returned)
        => /\ T_con = T_rad
           /\ surfaceT = surfT_in
           /\ (pc = "done" => atmT = T_rad /\ surfT = surfT_in)

\* C5: at the start of every iteration of the loop and after every bound
\* update, diffneg <= 0 <= diffpos and surfaceTneg <= surfaceTpos, and the
\* secant trial lies between surfaceTneg and surfaceTpos.
C5_BracketInvariant ==
    /\ (pc = "loop" /\ LoopGuard(diffpos, diffneg, near_zero))
          => /\ diffneg <= 0 /\ 0 <= diffpos
             /\ surfaceTneg <= surfaceTpos
             /\ surfaceTneg <= Secant(surfaceTneg, surfaceTpos, diffneg, diffpos)
             /\ Secant(surfaceTneg, surfaceTpos, diffneg, diffpos) <= surfaceTpos
    /\ counter > 0
          => /\ diffneg <= 0 /\ 0 <= diffpos
             /\ surfaceTneg <= surfaceTpos
             /\ surfaceTneg <= surfaceT /\ surfaceT <= surfaceTpos

\* the loop is at the head of a later iteration with both bounds moved
C5_Witness ==
    /\ pc = "loop" /\ counter >= 2
    /\ LoopGuard(diffpos, diffneg, near_zero)
    /\ surfaceTpos < surfT_in
    /\ surfaceTneg > Min(T_rad)
    /\ surfaceTneg < surfaceTpos

\* C6: the loop evaluates at most 100 trials, returns whenever a trial
\* satisfies the threshold, the 100th included, and raises only when 100
\* trials have been evaluated without the threshold being satisfied.
C6_RaisesOnlyUnconverged ==
    /\ counter <= MaxIter
    /\ pc = "failed"
          => (counter = MaxIter /\ LoopGuard(diffpos, diffneg, near_zero))
    /\ (counter > 0 /\ ~LoopGuard(diffpos, diffneg, near_zero))
          => pc \in {"loop", "returned", "done", "raised"}

\* C11: on every return path the returned profile is the candidate that
\* test_profile builds for the returned surface temperature.
C11_PairFromSameTrial ==
    Returned => T_con = BuildProfile(strategy, tf, T_rad, surfaceT, lp)

\* the surface temperature of the latest test_profile call
TrialSurfaceT == IF counter > 0 THEN surfaceT ELSE surfT_in

\* the adiabat of the latest trial and the levels where it exceeds the
\* radiative profile
TrialAdiabat == Adiabat(TrialSurfaceT, lp)
TrialUnstable == Unstable(TrialAdiabat, T_rad)

-----------------------------------------------------------------------------
(* calculate_convective_top_height on a stored heating array                *)
(* (specification SpecInterp)                                               *)

\* number of levels of the arrays
IvLen == 4
\* heating values are -MaxHeat..MaxHeat
MaxHeat == 1

HeatingArrays == [1..IvLen -> (0 - MaxHeat)..MaxHeat]

\* the level-index array, and a height array that grows with the level
IvVariables == {arange(IvLen), [i \in 1..IvLen |-> 10 * i * i]}

IvLims == {[num |-> 0, den |-> 1], DefaultLim}

\* if np.any(convective_heating > lim): contop_z = interp_variable(...)
\* else: contop_z = np.nan
calculate_convective_top_height(z, heating, lim) ==
    IF \E i \in DOMAIN heating : Above(heating[i], lim)
    THEN interp_variable(z, heating, lim)
    ELSE NaN

ConvectiveTopHeight_Call ==
    /\ iv_pc = "ready"
    /\ LET r == calculate_convective_top_height(iv_variable, iv_heating, iv_lim)
       IN  /\ iv_result' = r
           /\ iv_pc' = IF r = ValueError THEN "raised" ELSE "done"
    /\ UNCHANGED <<iv_variable, iv_heating, iv_lim, conv_vars, hum_vars>>

InitInterp ==
    /\ ConvUnused
    /\ HumUnused
    /\ iv_pc = "ready"
    /\ iv_heating \in HeatingArrays
    /\ iv_variable \in IvVariables
    /\ iv_lim \in IvLims
    /\ iv_result = NaN

NextInterp == ConvectiveTopHeight_Call

SpecInterp == InitInterp /\ [][NextInterp]_vars

\* some level's heating exceeds the limit
AnyAbove == \E i \in DOMAIN iv_heating : Above(iv_heating[i], iv_lim)

\* the heating of levels k and k+1 lies on opposite sides of the limit
OppositeSides(k) ==
    /\ iv_heating[k] # iv_heating[k + 1]
    /\ \/ ~Below(iv_heating[k], iv_lim) /\ ~Above(iv_heating[k + 1], iv_lim)
       \/ ~Above(iv_heating[k], iv_lim) /\ ~Below(iv_heating[k + 1], iv_lim)

\* r is the linear interpolation of the variable between levels k and k+1 at
\* heating = lim:  v[k] + (v[k+1] - v[k]) * (lim - h[k]) / (h[k+1] - h[k])
IsInterpolationAt(r, k) ==
    LET h0 == iv_heating[k]
        h1 == iv_heating[k + 1]
        v0 == iv_variable[k]
        v1 == iv_variable[k + 1]
    IN  /\ r.kind = "value"
        /\ r.num * ((h1 - h0) * iv_lim.den)
             = (v0 * (h1 - h0) * iv_lim.den
                  + (v1 - v0) * (iv_lim.num - h0 * iv_lim.den)) * r.den

\* C7: whenever some level's heating exceeds lim, interp_variable returns the
\* exact linear interpolation at heating = lim between two adjacent levels
\* whose heating lies on opposite sides of lim, for every heating array and
\* every lim; [-1, -1, 1, 1] with lim 0 on the level indices gives 1.5.
C7_ExactInterpolation ==
    (iv_pc \in {"done", "raised"} /\ AnyAbove)
        => /\ iv_pc = "done"
           /\ \E k \in 1..(IvLen - 1) :
                 OppositeSides(k) /\ IsInterpolationAt(iv_result, k)
           /\ (iv_heating = <<-1, -1, 1, 1>> /\ iv_lim.num = 0
                 /\ iv_variable = arange(IvLen))
                 => 2 * iv_result.num = 3 * iv_result.den

-----------------------------------------------------------------------------
(* Humidity policies (specification SpecHumidity).  A vapor field is a      *)
(* profile of exact fractions num[i] / den, kept in lowest terms.           *)

\* volume mixing ratios of the vapor fields are 1..MaxVmr
MaxVmr == 2
\* the targets given to the constructor are 1..MaxIWV
MaxIWV == 2

HumLevels == 1..3

RECURSIVE GCD(_, _)
GCD(a, b) == IF b = 0 THEN a ELSE GCD(b, a % b)

RECURSIVE GCDTo(_, _)
\* the greatest common divisor of f[1], ..., f[n]
GCDTo(f, n) == IF n = 0 THEN 0 ELSE GCD(GCDTo(f, n - 1), f[n])

\* the fraction n / d in lowest terms
Reduced(n, d) == Frac(n \div GCD(n, d), d \div GCD(n, d))

\* the field num[i] / den in lowest terms
Field(num, den) ==
    LET g == GCD(GCDTo(num, Len(num)), den)
    IN  [num |-> [i \in DOMAIN num |-> num[i] \div g], den |-> den \div g]

\* integrate_vmr(vmr, pressure): linear in vmr, one positive weight per level
LayerWeight == <<3, 2, 1>>
integrate_vmr(vmr) ==
    Reduced(SumTo([i \in HumLevels |-> LayerWeight[i] * vmr.num[i]], 3), vmr.den)

\* relative_humidity2vmr(rh, pressure, temperature): the relative humidity,
\* in halves, times the saturation mixing ratio of the level
SaturationVmr == <<4, 1, 2>>
relative_humidity2vmr(rh) ==
    Field([i \in HumLevels |-> rh[i] * SaturationVmr[i]], 2)

\* VerticallyUniform(), the default rh_func, and an rh_func that was given
VerticallyUniform == <<1, 1, 1>>
GivenRhFunc == <<2, 1, 1>>
\* f_T(atmosphere) of a given f_T; the default is lambda x: 0
GivenFT == 1

\* ColdPointCoupling.adjust_stratospheric_vmr: the levels above the cold
\* point, level 2 of the column, take the cold point's mixing ratio; a
\* coupling that was given leaves the field as it is
cold_point == 2
adjust_stratospheric_vmr(args, vmr) ==
    IF "stratosphere_coupling" \in args THEN vmr
    ELSE Field([i \in HumLevels |-> IF i > cold_point THEN vmr.num[cold_point]
                                                        ELSE vmr.num[i]],
               vmr.den)

Classes == {"FixedRH", "FixedIWV", "ChangeRHwithT", "ChangeRHwithp"}

\* the optional parameters of each constructor
Params(cls) ==
    CASE cls = "FixedRH" -> {"rh_func", "stratosphere_coupling"}
      [] cls = "FixedIWV" -> {"rh_func", "stratosphere_coupling", "IWV"}
      [] cls = "ChangeRHwithT" ->
             {"rh_func", "stratosphere_coupling", "IWV", "f_T"}
      [] cls = "ChangeRHwithp" ->
             {"rh_func", "stratosphere_coupling", "IWV", "f_p"}

\* ChangeRHwithp.__init__ reads the name f_T, which is bound nowhere
InitRaises(cls, given) == cls = "ChangeRHwithp"

\* FixedIWV.__init__: self.IWV = IWV
InitIWV(cls, given, iwv) ==
    IF cls # "FixedRH" /\ "IWV" \in given THEN Frac(iwv, 1) ELSE None

\* the relative humidity adjust_humidity computes, or <<>> when the call of
\* an rh_func that is None raises TypeError
RelativeHumidity(cls, given, T_diff) ==
    LET base == IF "rh_func" \in given THEN GivenRhFunc ELSE VerticallyUniform
        slope == IF "f_T" \in given THEN GivenFT ELSE 0
    IN  CASE cls \in {"FixedRH", "FixedIWV"} -> base
          [] cls = "ChangeRHwithT" ->
                 IF "rh_func" \in given
                 THEN [i \in HumLevels |-> base[i] + slope * T_diff]
                 ELSE <<>>
          [] cls = "ChangeRHwithp" ->
                 [i \in HumLevels |->
                     base[i] + (IF "f_p" \in given THEN T_diff ELSE 0)]

\* if not self.IWV
NoTarget(t) == t = None \/ t.num = 0

\* self.IWV after rescale_IWV
RescaleTarget(t, cur) == IF NoTarget(t) THEN cur ELSE t

\* the ratio of the rescaling turned over: H2O * IWV_curr / self.IWV
Rescaled_Inverted(vmr, t, cur) ==
    Field([i \in HumLevels |-> vmr.num[i] * cur.num * t.den],
          vmr.den * cur.den * t.num)

\* atmosphere["H2O"][-1, :] * self.IWV / IWV_curr
Rescaled(vmr, t, cur) ==
    Field([i \in HumLevels |-> vmr.num[i] * t.num * cur.den],
          vmr.den * t.den * cur.num)

Hum_Construct(cls, given, iwv) ==
    /\ hum_pc = "new"
    /\ hum_class' = cls
    /\ hum_args' = given
    /\ hum_pc' = IF InitRaises(cls, given) THEN "error" ELSE "ready"
    /\ hum_IWV' = InitIWV(cls, given, iwv)
    /\ hum_IWV0' = IF "IWV" \in given THEN Frac(iwv, 1) ELSE None
    /\ UNCHANGED <<H2O, hum_uncoupled, hum_last, conv_vars, iv_vars>>

Adjust_Humidity(T_diff) ==
    /\ hum_pc = "ready"
    /\ LET rh == RelativeHumidity(hum_class, hum_args, T_diff)
           written == relative_humidity2vmr(rh)
       IN  IF rh = <<>>
           THEN /\ hum_pc' = "error"
                /\ UNCHANGED <<H2O, hum_uncoupled, hum_last>>
           ELSE /\ hum_pc' = "ready"
                /\ H2O' = adjust_stratospheric_vmr(hum_args, written)
                /\ hum_uncoupled' = FALSE
                /\ hum_last' = "adjust_humidity"
    /\ UNCHANGED <<hum_class, hum_args, hum_IWV, hum_IWV0, conv_vars, iv_vars>>

Rescale_IWV ==
    /\ hum_pc = "ready"
    /\ hum_class # "FixedRH"
    /\ LET IWV_curr == integrate_vmr(H2O)
           target == RescaleTarget(hum_IWV, IWV_curr)
           written == Rescaled(H2O, target, IWV_curr)
       IN  /\ hum_IWV' = target
           /\ hum_IWV0' = IF hum_IWV0 = None THEN IWV_curr ELSE hum_IWV0
           /\ H2O' = written
           /\ hum_uncoupled' = TRUE
           /\ hum_last' = "rescale_IWV"
    /\ UNCHANGED <<hum_class, hum_args, hum_pc, conv_vars, iv_vars>>

VaporFields == {Field(v, 1) : v \in [HumLevels -> 1..MaxVmr]}

\* another component of the model run replaces the vapor field
External_Vapor_Change(v) ==
    /\ hum_pc = "ready"
    /\ H2O' = v
    /\ hum_uncoupled' = FALSE
    /\ hum_last' = "external"
    /\ UNCHANGED <<hum_class, hum_args, hum_pc, hum_IWV, hum_IWV0,
                   conv_vars, iv_vars>>

InitHumidity ==
    /\ ConvUnused
    /\ IvUnused
    /\ hum_class = "none" /\ hum_args = {} /\ hum_pc = "new"
    /\ hum_IWV = None /\ hum_IWV0 = None
    /\ H2O \in VaporFields
    /\ hum_uncoupled = FALSE /\ hum_last = "none"

NextHumidity ==
    \/ \E cls \in Classes : \E given \in SUBSET Params(cls) :
          \E iwv \in 1..MaxIWV : Hum_Construct(cls, given, iwv)
    \/ \E T_diff \in 0..1 : Adjust_Humidity(T_diff)
    \/ Rescale_IWV
    \/ \E v \in VaporFields : External_Vapor_Change(v)

SpecHumidity == InitHumidity /\ [][NextHumidity]_vars

-----------------------------------------------------------------------------
(* Claims about the humidity policies (specification SpecHumidity)          *)

C9_CouplingAfterEveryWrite ==
    hum_last \in {"adjust_humidity", "rescale_IWV"} => ~hum_uncoupled

\* C10: with any subset of the optional parameters omitted, constructing a
\* policy and calling adjust_humidity or rescale_IWV never ends in an error.
C10_MissingParameterNeverFatal == hum_pc # "error"

=============================================================================
